---------------------------- MODULE Spec2Model ----------------------------
(***************************************************************************)
(* Object picking in the Vulkan examples of this repository.               *)
(*                                                                         *)
(* Five programs are modelled; a behaviour runs exactly one of them, the   *)
(* one named by the variable program, which never changes:                 *)
(*   "marquee"    the marquee pick example   (src/unnamed/part_002)         *)
(*   "pickbuffer" the pick buffer example    (src/examples/pickbuffer/     *)
(*                                            README.md holds its source)  *)
(*   "rayquery"   ray picking + manipulator  (src/examples/rayquery/       *)
(*                                            rayquery.cpp)                *)
(*   "raygrid"    ray picking on a grid      (src/unnamed/part_001)         *)
(*   "guide"      ray_picking.comp of the picking guide                    *)
(*                                           (src/unnamed/part_000)         *)
(*                                                                         *)
(* Lengths are integers.  Screen coordinates are whole pixels (the window  *)
(* system delivers integer positions, which the handlers cast to float).   *)
(* World coordinates of the ray examples are in units of 0.1.              *)
(***************************************************************************)
EXTENDS Integers, Naturals, Sequences, FiniteSets, TLC

VARIABLES
    program,              \* which example this behaviour runs
    aborted,              \* the process ended in VK_CHECK_RESULT / undefined behaviour
    fenceWait,            \* how the last vkWaitForFences on marqueepickFence ended
    gpu,                  \* the device this run has: it completes all work, or may hang
    \* ---- id-buffer examples (marquee, pickbuffer)
    scene,                \* arrangement of the spheres chosen by setupObjects
    selected,             \* objects[i].selected, i in 0..NumObjects-1
    selectedObjectIndex,  \* int selectedObjectIndex
    dragging,             \* bool dragging
    wasMouseDown,         \* bool wasMouseDown
    dragStart,            \* glm::vec2 dragStart
    dragEnd,              \* glm::vec2 dragEnd
    imageRendered,        \* the id image holds the result of an id render
    imageLayout,          \* layout the id image was left in
    gpuLog,               \* GPU/host operations issued by the last handler call
    lastEvent,            \* the last handler call: its kind, button state, position
    lastPick,             \* the pick performed by the last handler call
    gesturePicks,         \* picks performed since the last pointer-down (2: two or more)
    farMoved,             \* a move of this gesture was at or beyond the threshold
    \* ---- ray examples (rayquery, raygrid)
    position,             \* objects[i].position
    selectedObjectID,     \* uint32_t selectedObjectID
    manipulator,          \* Manipulator manipulator
    wasPressed,           \* static bool wasPressed
    isDragging,           \* static bool isDragging
    lastXY,               \* static float lastX, lastY
    lastRay,              \* the ray pick performed by the last handler call
    accelBuild,           \* what prepare()'s acceleration structure build was given and left
    topLevelAS,           \* the instance transforms topLevelAS was last built from
    \* ---- picking guide (ray_picking.comp)
    instanceT,            \* distance at which the ray meets each instance
    pickResult,           \* buffer PickResult
    \* ---- the id codec taken alone
    codec,                \* an id on its way through getIdColor, the id image and the read-back
    \* ---- the graphics queue of the marquee example
    queue                 \* the work in flight on VkQueue queue between handler calls

idVars == << scene, selected, selectedObjectIndex, dragging, wasMouseDown,
             dragStart, dragEnd, imageRendered, imageLayout >>
histVars == << gpuLog, lastEvent, lastPick, gesturePicks, farMoved >>
rayVars == << position, selectedObjectID, manipulator, wasPressed, isDragging,
              lastXY >>
guideVars == << instanceT, pickResult >>
\* what no handler changes unless the process ends or a wait does not return
envVars == << program, aborted, fenceWait, accelBuild, gpu, topLevelAS >>
programVars == << envVars, idVars, histVars, rayVars, lastRay, guideVars >>
vars == << programVars, codec, queue >>

-----------------------------------------------------------------------------
(* Bounds of the model *)

\* objects created by setupObjects (the code creates 10)
NumObjects == 2
\* width of the id image = width of the viewport, in pixels
ImgW == 4
\* height of the id image = height of the viewport, in pixels
ImgH == 1
\* how far, in units of 0.1, manipulator drags may carry the objects,
\* taken together, from where setupScene put them
MaxDrift == 1

(* Program constants *)

\* if (dragDistance > 3.0f)
ClickThreshold == 3
\* uint32_t selectedObjectID = UINT32_MAX: the value no index equals. TLC's
\* integers end at 2^31 - 1, which stands for it here; both leave the same
\* remainder modulo 2^24.
UINT32_MAX == 2147483647
\* FLT_MAX: a value above every distance of the model
FLT_MAX == 1000000
\* float radius = 0.5f, in units of 0.1
Radius == 5
\* float axisLength = 1.0f, in units of 0.1
AxisLength == 10
\* const float threshold = axisThickness * 2.0f = 0.1, in units of 0.1
AxisThreshold == 1
\* the factor 0.1f of computeMovementAmount, in units of 0.1
MoveScale == 1
\* float spacing = 3.0f, in units of 0.1
GridSpacing == 30
\* uint32_t gridSize = 5
GridSize == 5
\* tMin = 0.001 of rayQueryInitializeEXT, in units of 0.001
RayTMin == 1
\* tMax = 10000.0 of rayQueryInitializeEXT, in units of 0.001
RayTMax == 10000000

Objs == 0 .. (NumObjects - 1)
\* pointer positions delivered to mouseMoved: the viewport and one pixel
\* outside of it, to the left and below
MouseXs == -1 .. (ImgW - 1)
MouseYs == 0 .. ImgH
MousePoints == MouseXs \X MouseYs

Scenes == {"ascending", "descending", "offscreen"}

Min(a, b) == IF a <= b THEN a ELSE b
Abs(a) == IF a < 0 THEN -a ELSE a

-----------------------------------------------------------------------------
(* Scene objects and the id/colour codec *)

\* variant of ObjectId: the ids counted from 0
ObjectIdFromZero(i) == i

\* objects.emplace_back(i + 1, ...): the id of objects[i]
ObjectId(i) == i + 1

\* A float in [0, 1] is kept as a multiple of 1/FloatOne, rounded to nearest:
\* 16 fractional bits, coarser than the 24-bit significand of the float the
\* code uses, so whatever survives this rounding survives the code's.
FloatOne == 65536

\* n / d as such a float, rounded to nearest
FloatDiv(n, d) == (2 * n * FloatOne + d) \div (2 * d)

\* Object::getIdColor: r = ((id & 0xFF) >> 0) / 255.0f,
\* g = ((id & 0xFF00) >> 8) / 255.0f, b = ((id & 0xFF0000) >> 16) / 255.0f
getIdColor(id) ==
    << FloatDiv(id % 256, 255),
       FloatDiv((id \div 256) % 256, 255),
       FloatDiv((id \div 65536) % 256, 255) >>

\* variant of ToUnorm8: the fraction is dropped instead of rounded
ToUnorm8Truncating(f) == (f * 255) \div FloatOne

\* the conversion of a float in [0, 1] to a byte of an R8G8B8A8_UNORM
\* attachment: round(f * 255)
ToUnorm8(f) == (2 * f * 255 + FloatOne) \div (2 * FloatOne)

\* the fragment shader writes outFragColor = vec4(idColor, 1.0) to the
\* R8G8B8A8_UNORM attachment (no blending, one sample)
FragmentOutput(c) ==
    << ToUnorm8(c[1]), ToUnorm8(c[2]), ToUnorm8(c[3]), ToUnorm8(FloatOne) >>

\* clearValues[0].color = {0,0,0,0}: "no object"
ClearColor == << 0, 0, 0, 0 >>

\* variant of DecodePixel: the bytes taken in the order b, g, r
DecodePixelReversed(p) == p[3] + p[2] * 256 + p[1] * 65536
\* uint32_t objectId = pixel[0] | (pixel[1] << 8) | (pixel[2] << 16)
\* (the bytes do not overlap, the bitwise or is their sum)
DecodePixel(p) == p[1] + p[2] * 256 + p[3] * 65536

-----------------------------------------------------------------------------
(* The id render: buildPickCommandBuffer and the pick pipeline *)

\* The footprint of objects[i] in the id image.  setupObjects places the
\* spheres at random and the camera moves, so the arrangement is an input:
\* in "offscreen" no sphere is in view; otherwise objects[i] covers columns
\* i+1 and i+2 of the top row, and neighbours overlap in one column.
Covers(sc, i, x, y) ==
    /\ sc # "offscreen"
    /\ x \in {i + 1, i + 2}
    /\ x \in 0 .. (ImgW - 1)
    /\ y = 0

\* depth of the fragments of objects[i]: in "ascending" objects[0] is the
\* nearest, in "descending" the last object is
FragDepth(sc, i) == IF sc = "ascending" THEN i + 1 ELSE NumObjects - i

\* clearValues[1].depthStencil = {1.0f, 0}: the far plane, behind everything
ClearDepth == NumObjects + 1

\* variant of DepthTestPasses: no depth test
DepthTestAlways(fragDepth, storedDepth) == TRUE

\* VK_COMPARE_OP_LESS_OR_EQUAL with depth write enabled
DepthTestPasses(fragDepth, storedDepth) == fragDepth <= storedDepth

\* for (const auto& object : objects) { push idColor; vkCmdDrawIndexed }
\* applied to one pixel: px = [depth, color] after the clear, then one draw
\* per object in list order
RECURSIVE DrawObjects(_, _, _, _, _)
DrawObjects(sc, x, y, i, px) ==
    IF i >= NumObjects THEN px
    ELSE LET hit == Covers(sc, i, x, y)
                    /\ DepthTestPasses(FragDepth(sc, i), px.depth)
             nx == IF hit
                   THEN [depth |-> FragDepth(sc, i),
                         color |-> FragmentOutput(getIdColor(ObjectId(i)))]
                   ELSE px
         IN DrawObjects(sc, x, y, i + 1, nx)

\* the colour attachment after the render pass recorded by
\* buildPickCommandBuffer, at pixel (x, y)
buildPickCommandBuffer(sc, x, y) ==
    DrawObjects(sc, x, y, 0, [depth |-> ClearDepth, color |-> ClearColor]).color

InImage(x, y) == x \in 0 .. (ImgW - 1) /\ y \in 0 .. (ImgH - 1)

-----------------------------------------------------------------------------
(* Readback *)

\* What a copy that reads outside the image, or an image that was never
\* rendered, may deliver (undefined behaviour): any pixel.  Three stand
\* for them: background, a live id and an id no object has.
GarbagePixels == { ClearColor, << 1, 0, 0, 255 >>, << 0, 1, 0, 255 >> }

\* outcomes of undefined behaviour: the process dies, or it goes on with
\* some pixel value
UBOutcomes ==
    { [ abort |-> TRUE, pixel |-> ClearColor ] }
    \cup { [ abort |-> FALSE, pixel |-> g ] : g \in GarbagePixels }

\* vkCmdCopyImageToBuffer of one texel; g is what an invalid read delivers
CopyTexel(sc, rendered, x, y, g) ==
    IF rendered /\ InImage(x, y) THEN buildPickCommandBuffer(sc, x, y) ELSE g

\* vkCmdCopyImageToBuffer with bufferRowLength = 0: the texels of the
\* region, tightly packed, row after row
CopyRegion(sc, rendered, ox, oy, w, h, g) ==
    [ k \in 1 .. (w * h) |->
        CopyTexel(sc, rendered, ox + ((k - 1) % w), oy + ((k - 1) \div w), g) ]

\* a copy is valid when the image was rendered and the region is not empty
\* and lies inside the image
CopyValid(rendered, ox, oy, w, h) ==
    /\ rendered
    /\ w > 0 /\ h > 0
    /\ ox >= 0 /\ oy >= 0
    /\ ox + w <= ImgW /\ oy + h <= ImgH

\* for (size_t i = 0; i < numPixels; ++i) { ...; if (objectID != 0) insert }
RECURSIVE DecodeLoop(_, _, _, _)
DecodeLoop(pixels, i, numPixels, ids) ==
    IF i >= numPixels THEN ids
    ELSE LET objectID == DecodePixel(pixels[i + 1])
         IN DecodeLoop(pixels, i + 1, numPixels,
                       IF objectID # 0 THEN ids \cup {objectID} ELSE ids)

\* GetObjectIDsFromRect: the staging buffer filled by the copy and the set
\* of ids decoded from it.  imageSize and numPixels are uint32 products of
\* the extent; they wrap only from 2^30 pixels on, which no window reaches.
GetObjectIDsFromRect(sc, rendered, ox, oy, w, h, g) ==
    LET numPixels == w * h
        pixels == CopyRegion(sc, rendered, ox, oy, w, h, g)
    IN [ pixels |-> pixels,
         ids |-> DecodeLoop(pixels, 0, numPixels, {}) ]

\* vulkanDevice->flushCommandBuffer(cmdBuffer, queue): "Submit and wait
\* for completion"
flushCommandBuffer == << "copy_submit", "copy_wait" >>

\* the GPU and host operations of GetObjectIDsFromRect, in program order
GetObjectIDsFromRectOps ==
    << "barrier_to_transfer_src", "copy_record", "barrier_to_general" >>
    \o flushCommandBuffer \o << "host_read" >>

\* vkResetFences; vkQueueSubmit(.., marqueepickFence);
\* vkWaitForFences(.., UINT64_MAX)
RenderSubmitOps == << "render_submit", "render_wait" >>

\* What a pick records against the id image, in program order. Each
\* operation names the layout it takes the image to be in (names) and leaves
\* it in a layout (leaves).
\* marqueepickBuffer.renderPass, colour attachment: initialLayout UNDEFINED,
\* finalLayout TRANSFER_SRC_OPTIMAL
IdRenderPass ==
    [ op |-> "render_pass", names |-> "UNDEFINED", leaves |-> "TRANSFER_SRC" ]

\* marqueepickObject: the render pass, then vkCmdCopyImageToBuffer with
\* srcImageLayout TRANSFER_SRC_OPTIMAL
PointPickImageOps ==
    << IdRenderPass,
       [ op |-> "copy", names |-> "TRANSFER_SRC", leaves |-> "TRANSFER_SRC" ] >>

\* performRubberBandPick: the render pass, then GetObjectIDsFromRect: a
\* barrier GENERAL -> TRANSFER_SRC_OPTIMAL, the copy, a barrier
\* TRANSFER_SRC_OPTIMAL -> GENERAL
RegionPickImageOps ==
    << IdRenderPass,
       [ op |-> "barrier", names |-> "GENERAL", leaves |-> "TRANSFER_SRC" ],
       [ op |-> "copy", names |-> "TRANSFER_SRC", leaves |-> "TRANSFER_SRC" ],
       [ op |-> "barrier", names |-> "TRANSFER_SRC", leaves |-> "GENERAL" ] >>

\* the layout the image is in after the operations
LayoutLeftBy(ops) == ops[Len(ops)].leaves

NoPick == [ kind |-> "none", offset |-> << 0, 0 >>, extent |-> << 0, 0 >>,
            pixels |-> << >>, ids |-> {}, valid |-> TRUE ]

-----------------------------------------------------------------------------
(* Selection *)

\* for (i = 0; i < objects.size(); i++) if (objects[i].id == objectId) {..; break;}
\* the index of the first object with that id, or -1
RECURSIVE FindObject(_, _)
FindObject(objectId, i) ==
    IF i >= NumObjects THEN -1
    ELSE IF ObjectId(i) = objectId THEN i
    ELSE FindObject(objectId, i + 1)

\* variant of SelectPicked: the loop that resets the selections left out
SelectPickedKeeping(objectId) ==
    LET found == IF objectId > 0 THEN FindObject(objectId, 0) ELSE -1
    IN [ i \in Objs |-> selected[i] \/ i = found ]
\* "Reset all selections", then "Find the object with the picked ID and
\* select it": the selected flags after a point pick
SelectPicked(objectId) ==
    LET found == IF objectId > 0 THEN FindObject(objectId, 0) ELSE -1
    IN [ i \in Objs |-> i = found ]

\* selectedObjectIndex after a point pick: set on a match, -1 for the
\* background, left alone when a nonzero id matches no object
IndexPicked(objectId, old) ==
    IF objectId > 0
    THEN LET found == FindObject(objectId, 0)
         IN IF found >= 0 THEN found ELSE old
    ELSE -1

\* variant of SelectRegion: objects outside the set keep their flag
SelectRegionKeeping(selectedIDs) ==
    [ i \in Objs |-> selected[i] \/ ObjectId(i) \in selectedIDs ]
\* for (auto& obj : objects) obj.selected = selectedIDs.count(obj.id) > 0;
SelectRegion(selectedIDs) == [ i \in Objs |-> ObjectId(i) \in selectedIDs ]

\* the process ends inside the handler
Abort ==
    /\ aborted' = TRUE
    /\ UNCHANGED << program, fenceWait, accelBuild, gpu, topLevelAS, idVars,
                    histVars >>

\* What vkWaitForFences(device, 1, &marqueepickFence, VK_TRUE, UINT64_MAX)
\* can do after the id render was submitted: return VK_SUCCESS once the GPU
\* has signalled the fence, which a responsive device always does; on a
\* device that may hang also never return, when the signal never arrives
\* (the timeout of UINT64_MAX nanoseconds does not expire), or return
\* VK_ERROR_DEVICE_LOST
FenceOutcomes(g) ==
    IF g = "responsive" THEN { "returned" }
    ELSE { "returned", "blocked", "device_lost" }

\* the handler stays inside vkWaitForFences
WaitBlocked ==
    /\ fenceWait' = "blocked"
    /\ UNCHANGED << program, aborted, accelBuild, gpu, topLevelAS, idVars,
                    histVars >>

\* VK_CHECK_RESULT(vkWaitForFences(...)) with a result other than VK_SUCCESS
WaitFailed ==
    /\ fenceWait' = "device_lost"
    /\ aborted' = TRUE
    /\ UNCHANGED << program, accelBuild, gpu, topLevelAS, idVars, histVars >>

\* The work in flight on the graphics queue when no handler runs: frame, the
\* main pass submitted by renderFrame is still executing; pick, an id render
\* is; hazard, the two have been in flight together while writing the same
\* attachment; rendered, a frame has been submitted since the last pick.
QueueIdle == [ frame |-> FALSE, pick |-> FALSE, hazard |-> FALSE,
               rendered |-> FALSE ]

\* setupPickBuffer: attachments[0] = marqueepickBuffer.imageView,
\* attachments[1] = depthStencil.view
PickAttachments == { "marqueepickBuffer.imageView", "depthStencil.view" }

\* buildCommandBuffers: the main pass renders to frameBuffers[i] with a
\* colour and a depth clear value, the swap chain image and the depth image
\* of the base class
MainPassAttachments == { "swapChain.imageView", "depthStencil.view" }

\* vkQueueSubmit(queue, 1, &submitInfo, marqueepickFence): the id render is
\* in flight, together with whatever the queue still executes
PickSubmitted(q) ==
    [ q EXCEPT !.pick = TRUE,
               !.rendered = FALSE,
               !.hazard = @ \/ (q.frame
                                 /\ PickAttachments \cap MainPassAttachments # { }) ]

\* variant of PickRoundTrip: the render is submitted and not waited for
PickSubmitOnly(q) == PickSubmitted(q)

\* vkQueueSubmit followed by vkWaitForFences(.., marqueepickFence, ..) that
\* returns: the id render has completed when the handler goes on
PickRoundTrip(q) == [ PickSubmitted(q) EXCEPT !.pick = FALSE ]

\* VulkanExampleBase::renderFrame: the frame's command buffer, with the main
\* pass, is submitted to the queue; frame rendering is not pipelined with
\* picking, so the frame's work has completed when the next event is handled
renderFrame(q) ==
    [ q EXCEPT !.frame = FALSE,
               !.rendered = TRUE,
               !.hazard = @ \/ (q.pick
                                 /\ PickAttachments \cap MainPassAttachments # { }) ]

Garbage(ub) == ub.pixel

\* the outcomes to consider for a copy: undefined behaviour has outcomes
\* only when the copy is invalid
OutcomesOf(valid) ==
    IF valid THEN { [ abort |-> FALSE, pixel |-> ClearColor ] } ELSE UBOutcomes

-----------------------------------------------------------------------------
(* The marquee example: part_002 *)

\* marqueepickObject(mouseX, mouseY); ub is the outcome of undefined
\* behaviour, used only when the copy is invalid.  The gesture variables
\* are set by the caller.
marqueepickObject(mouseX, mouseY, ub) ==
    LET ox == mouseX
        oy == mouseY
        valid == CopyValid(TRUE, ox, oy, 1, 1)
        pixelData == CopyTexel(scene, TRUE, ox, oy, Garbage(ub))
        objectId == DecodePixel(pixelData)
    IN /\ imageRendered' = TRUE
       /\ imageLayout' = LayoutLeftBy(PointPickImageOps)
       /\ selected' = SelectPicked(objectId)
       /\ selectedObjectIndex' = IndexPicked(objectId, selectedObjectIndex)
       /\ gpuLog' = RenderSubmitOps \o << "copy_record" >>
                      \o flushCommandBuffer \o << "host_read" >>
       /\ lastPick' = [ kind |-> "point", offset |-> << ox, oy >>,
                        extent |-> << 1, 1 >>, pixels |-> << pixelData >>,
                        ids |-> {objectId}, valid |-> valid ]

\* rect.offset / rect.extent of performRubberBandPick:
\* int32(min(start, end)) and uint32(abs(end - start))
RubberBandRect(start, end) ==
    [ ox |-> Min(start[1], end[1]), oy |-> Min(start[2], end[2]),
      w |-> Abs(end[1] - start[1]), h |-> Abs(end[2] - start[2]) ]

\* performRubberBandPick(start, end)
performRubberBandPick(start, end, ub) ==
    LET rect == RubberBandRect(start, end)
        valid == CopyValid(TRUE, rect.ox, rect.oy, rect.w, rect.h)
        got == GetObjectIDsFromRect(scene, TRUE, rect.ox, rect.oy,
                                    rect.w, rect.h, Garbage(ub))
    IN /\ imageRendered' = TRUE
       /\ imageLayout' = LayoutLeftBy(RegionPickImageOps)
       /\ selected' = SelectRegion(got.ids)
       /\ UNCHANGED selectedObjectIndex
       /\ gpuLog' = RenderSubmitOps \o GetObjectIDsFromRectOps
       /\ lastPick' = [ kind |-> "region", offset |-> << rect.ox, rect.oy >>,
                        extent |-> << rect.w, rect.h >>, pixels |-> got.pixels,
                        ids |-> got.ids, valid |-> valid ]

DistSq(a, b) == (a[1] - b[1]) * (a[1] - b[1]) + (a[2] - b[2]) * (a[2] - b[2])

\* variant of IsDrag: the comparison written >= instead of >
IsDragAtThreshold(start, end) ==
    DistSq(start, end) >= ClickThreshold * ClickThreshold
\* glm::distance(dragStart, dragEnd) > 3.0f.  The coordinates are whole
\* numbers, so sqrt(d2) > t exactly when d2 > t*t.
IsDrag(start, end) == DistSq(start, end) > ClickThreshold * ClickThreshold

\* whether the release at (x, y) reads outside the image or an empty region
ReleaseIsValid(start, x, y) ==
    IF IsDrag(start, << x, y >>)
    THEN LET rect == RubberBandRect(start, << x, y >>)
         IN CopyValid(TRUE, rect.ox, rect.oy, rect.w, rect.h)
    ELSE CopyValid(TRUE, x, y, 1, 1)

\* what a handler call that performs no pick records
NoPickMade ==
    /\ gpuLog' = << >>
    /\ lastPick' = NoPick

\* variant of MarqueePress: the press also picks at the pressed point, as the
\* pick-buffer example does
MarqueePressPicking(x, y) ==
    /\ dragStart' = << x, y >>
    /\ dragging' = TRUE
    /\ wasMouseDown' = TRUE
    /\ lastEvent' = [ kind |-> "down", left |-> TRUE, at |-> << x, y >> ]
    /\ gesturePicks' = 1
    /\ farMoved' = FALSE
    /\ marqueepickObject(x, y, [ abort |-> FALSE, pixel |-> ClearColor ])
    /\ UNCHANGED << envVars, scene, dragEnd >>

\* if (leftButtonDown) { if (!wasMouseDown) {...} }: mouse just pressed,
\* start drag
MarqueePress(x, y) ==
    /\ dragStart' = << x, y >>
    /\ dragging' = TRUE
    /\ wasMouseDown' = TRUE
    /\ lastEvent' = [ kind |-> "down", left |-> TRUE, at |-> << x, y >> ]
    /\ gesturePicks' = 0
    /\ farMoved' = FALSE
    /\ NoPickMade
    /\ UNCHANGED << envVars, scene, selected, selectedObjectIndex,
                    dragEnd, imageRendered, imageLayout >>

\* variant of MarqueeHold: the move also overwrites the start point
MarqueeHoldRestart(x, y) ==
    /\ dragStart' = << x, y >>
    /\ dragEnd' = << x, y >>
    /\ lastEvent' = [ kind |-> "move", left |-> TRUE, at |-> << x, y >> ]
    /\ farMoved' = farMoved
    /\ NoPickMade
    /\ UNCHANGED << envVars, scene, selected, selectedObjectIndex,
                    dragging, wasMouseDown, imageRendered, imageLayout,
                    gesturePicks >>

\* else if (dragging) {...}: mouse held down, update drag
MarqueeHold(x, y) ==
    /\ dragEnd' = << x, y >>
    /\ lastEvent' = [ kind |-> "move", left |-> TRUE, at |-> << x, y >> ]
    /\ farMoved' = (farMoved \/ DistSq(dragStart, << x, y >>)
                                   >= ClickThreshold * ClickThreshold)
    /\ NoPickMade
    /\ UNCHANGED << envVars, scene, selected, selectedObjectIndex,
                    dragStart, dragging, wasMouseDown, imageRendered,
                    imageLayout, gesturePicks >>

\* variant of MarqueeRelease: the decision taken on the point of the last
\* move instead of the release point
MarqueeReleaseStale(x, y) ==
    \E ub \in OutcomesOf(ReleaseIsValid(dragStart, x, y)) :
        IF ub.abort
        THEN Abort
        ELSE /\ dragEnd' = << x, y >>
             /\ IF IsDrag(dragStart, dragEnd)
                THEN performRubberBandPick(dragStart, << x, y >>, ub)
                ELSE marqueepickObject(x, y, ub)
             /\ dragging' = FALSE
             /\ wasMouseDown' = FALSE
             /\ lastEvent' = [ kind |-> "up", left |-> FALSE, at |-> << x, y >> ]
             /\ gesturePicks' = Min(gesturePicks + 1, 2)
             /\ UNCHANGED << envVars, scene, dragStart, farMoved >>

\* if (wasMouseDown && dragging) {...} dragging = false; wasMouseDown = false:
\* mouse just released, finalize drag
MarqueeRelease(x, y) ==
    \E wait \in FenceOutcomes(gpu) :
      IF wait = "blocked" THEN WaitBlocked
      ELSE IF wait = "device_lost" THEN WaitFailed
      ELSE
      \E ub \in OutcomesOf(ReleaseIsValid(dragStart, x, y)) :
        IF ub.abort
        THEN Abort
        ELSE /\ dragEnd' = << x, y >>
             /\ IF IsDrag(dragStart, << x, y >>)
                THEN performRubberBandPick(dragStart, << x, y >>, ub)
                ELSE marqueepickObject(x, y, ub)
             /\ dragging' = FALSE
             /\ wasMouseDown' = FALSE
             /\ lastEvent' = [ kind |-> "up", left |-> FALSE, at |-> << x, y >> ]
             /\ gesturePicks' = Min(gesturePicks + 1, 2)
             /\ UNCHANGED << envVars, scene, dragStart, farMoved >>

\* the button is up and no drag is in progress:
\* dragging = false; wasMouseDown = false
MarqueeIdle ==
    /\ dragging' = FALSE
    /\ wasMouseDown' = FALSE
    /\ lastEvent' = [ kind |-> "idle", left |-> FALSE, at |-> << 0, 0 >> ]
    /\ NoPickMade
    /\ UNCHANGED << envVars, scene, selected, selectedObjectIndex,
                    dragStart, dragEnd, imageRendered, imageLayout,
                    gesturePicks, farMoved >>

\* the button is down, it was down before and no drag is in progress:
\* neither branch of "if (!wasMouseDown) ... else if (dragging)" runs
MarqueeHeldNoDrag(x, y) ==
    /\ lastEvent' = [ kind |-> "move", left |-> TRUE, at |-> << x, y >> ]
    /\ NoPickMade
    /\ UNCHANGED << envVars, idVars, gesturePicks, farMoved >>

\* VulkanExample::mouseMoved(x, y, handled) with
\* leftButtonDown = mouseState.buttons.left
MarqueeMouseMoved(x, y, leftButtonDown) ==
    /\ program = "marquee"
    /\ ~aborted
    /\ fenceWait # "blocked"
    /\ UNCHANGED << rayVars, lastRay, guideVars, codec >>
    /\ IF leftButtonDown
       THEN IF ~wasMouseDown THEN MarqueePress(x, y)
            ELSE IF dragging THEN MarqueeHold(x, y)
            ELSE MarqueeHeldNoDrag(x, y)
       ELSE IF wasMouseDown /\ dragging THEN MarqueeRelease(x, y)
            ELSE MarqueeIdle
    \* only the release submits work: the id render of marqueepickObject or
    \* performRubberBandPick, waited for unless the wait does not return
    /\ queue' = IF ~leftButtonDown /\ wasMouseDown /\ dragging
                THEN (IF fenceWait' = "returned"
                      THEN PickRoundTrip(queue)
                      ELSE PickSubmitted(queue))
                ELSE queue

\* VulkanExample::render of the marquee example: renderFrame(), then
\* updateUniformBuffers() when the camera moved; it leaves the picking state
\* alone
MarqueeRender ==
    /\ program = "marquee"
    /\ ~aborted
    /\ fenceWait # "blocked"
    /\ queue' = renderFrame(queue)
    /\ UNCHANGED << programVars, codec >>

-----------------------------------------------------------------------------
(* The pick buffer example: examples/pickbuffer *)

\* pickObject(mouseX, mouseY): the id pass is part of drawCmdBuffers[0]
\* (buildCommandBuffers, "if (i == 0)"); pickObject only copies the texel
pickObject(mouseX, mouseY, ub) ==
    LET ox == mouseX
        oy == mouseY
        valid == CopyValid(imageRendered, ox, oy, 1, 1)
        pixelData == CopyTexel(scene, imageRendered, ox, oy, Garbage(ub))
        objectId == DecodePixel(pixelData)
    IN /\ selected' = SelectPicked(objectId)
       /\ selectedObjectIndex' = IndexPicked(objectId, selectedObjectIndex)
       /\ gpuLog' = << "copy_record" >> \o flushCommandBuffer \o << "host_read" >>
       /\ lastPick' = [ kind |-> "point", offset |-> << ox, oy >>,
                        extent |-> << 1, 1 >>, pixels |-> << pixelData >>,
                        ids |-> {objectId}, valid |-> valid ]
       /\ UNCHANGED << imageRendered, imageLayout >>

\* VulkanExample::mouseMoved of the pick buffer example
PickBufferMouseMoved(x, y, leftButtonDown) ==
    /\ program = "pickbuffer"
    /\ ~aborted
    /\ UNCHANGED << rayVars, lastRay, guideVars, codec, queue >>
    /\ IF leftButtonDown
       THEN IF ~wasMouseDown
            THEN \* mouse button just pressed: pick object
                 \E ub \in OutcomesOf(CopyValid(imageRendered, x, y, 1, 1)) :
                 IF ub.abort
                 THEN Abort
                 ELSE /\ pickObject(x, y, ub)
                      /\ wasMouseDown' = TRUE
                      /\ lastEvent' = [ kind |-> "down", left |-> TRUE,
                                        at |-> << x, y >> ]
                      /\ gesturePicks' = 1
                      /\ UNCHANGED << envVars, scene, dragging,
                                      dragStart, dragEnd, farMoved >>
            ELSE /\ lastEvent' = [ kind |-> "move", left |-> TRUE,
                                   at |-> << 0, 0 >> ]
                 /\ NoPickMade
                 /\ UNCHANGED << envVars, idVars, gesturePicks,
                                 farMoved >>
       ELSE /\ wasMouseDown' = FALSE
            /\ lastEvent' = [ kind |-> IF wasMouseDown THEN "up" ELSE "idle",
                              left |-> FALSE, at |-> << 0, 0 >> ]
            /\ NoPickMade
            /\ UNCHANGED << envVars, scene, selected,
                            selectedObjectIndex, dragging, dragStart, dragEnd,
                            imageRendered, imageLayout, gesturePicks,
                            farMoved >>

\* render() -> renderFrame(): the frame's command buffer is submitted; the
\* one of swapchain image 0 also holds the id pass, whose render pass
\* leaves the id image in TRANSFER_SRC_OPTIMAL
PickBufferRender(currentBuffer) ==
    /\ program = "pickbuffer"
    /\ ~aborted
    /\ UNCHANGED << rayVars, lastRay, guideVars, codec, queue >>
    /\ imageRendered' = (imageRendered \/ currentBuffer = 0)
    /\ imageLayout' = IF currentBuffer = 0 THEN "TRANSFER_SRC" ELSE imageLayout
    /\ NoPickMade
    /\ lastEvent' = [ kind |-> "frame", left |-> lastEvent.left,
                      at |-> << 0, 0 >> ]
    /\ UNCHANGED << envVars, scene, selected, selectedObjectIndex,
                    dragging, wasMouseDown, dragStart, dragEnd, gesturePicks,
                    farMoved >>

-----------------------------------------------------------------------------
(* The ray examples: rayquery.cpp and its earlier version (the 5x5 grid).
   Lengths are integers in units of 0.1; ray directions are unit vectors
   along the coordinate axes, so every product below is an integer and the
   only irrational values are the square roots of the sphere test. *)

Sub(u, v) == << u[1] - v[1], u[2] - v[2], u[3] - v[3] >>
Dot(u, v) == u[1] * v[1] + u[2] * v[2] + u[3] * v[3]
Cross(u, v) == << u[2] * v[3] - u[3] * v[2],
                  u[3] * v[1] - u[1] * v[3],
                  u[1] * v[2] - u[2] * v[1] >>
Sgn(n) == IF n > 0 THEN 1 ELSE IF n < 0 THEN -1 ELSE 0
\* glm::length of a vector that lies along one coordinate axis
Length(v) == Abs(v[1]) + Abs(v[2]) + Abs(v[3])
\* glm::normalize of a vector that lies along one coordinate axis
Normalize(v) == << Sgn(v[1]), Sgn(v[2]), Sgn(v[3]) >>

\* A distance tca - thc or tca + thc with thc = sqrt(k) is kept exact as the
\* record [a |-> tca, s |-> -1 or 1, k |-> k], standing for a + s * sqrt(k).
\* SignSum is the sign of p + c1 * sqrt(k1) + c2 * sqrt(k2), c1, c2 in -1..1.
SignSum(p, c1, k1, c2, k2) ==
    LET q == Sgn(c1 * k1 + c2 * k2)
        sp == Sgn(p)
    IN IF sp = 0 THEN q
       ELSE IF q = 0 THEN sp
       ELSE IF sp = q THEN sp
       ELSE IF Abs(p) > k1 + k2 THEN sp
       ELSE LET m == p * p - c1 * c1 * k1 - c2 * c2 * k2
                c == c1 * c2
                kk == 4 * k1 * k2
                d == IF c = 0 \/ kk = 0 THEN Sgn(m)
                     ELSE IF c = 1
                          THEN (IF m <= 0 THEN -1 ELSE Sgn(m * m - kk))
                          ELSE (IF m >= 0 THEN 1 ELSE Sgn(kk - m * m))
            IN IF d > 0 THEN sp ELSE IF d < 0 THEN q ELSE 0
\* t < u
Less(t, u) == SignSum(t.a - u.a, t.s, t.k, -u.s, u.k) < 0
\* t < 0
Negative(t) == SignSum(t.a, t.s, t.k, 0, 0) < 0
\* t > 0
Positive(t) == SignSum(t.a, t.s, t.k, 0, 0) > 0
\* float closestHit = FLT_MAX
ClosestHitInit == [ a |-> FLT_MAX, s |-> 1, k |-> 0 ]

\* setupScene of rayquery.cpp: the objects at (0, 5, -15), (8, 5, -15),
\* (-8, 5, -15), as many of them as the bound keeps
RayQueryScene ==
    [ i \in Objs |-> IF i = 0 THEN << 0, 50, -150 >>
                     ELSE IF i = 1 THEN << 80, 50, -150 >>
                     ELSE IF i = 2 THEN << -80, 50, -150 >>
                     ELSE << 160 * i, 50, -150 >> ]
\* setupScene of the grid example: the cell (x, z) of the 5x5 grid is at
\* ((x - gridSize/2) * spacing, 0.5, (z - gridSize/2) * spacing). gridSize is a
\* uint32_t, so the difference is unsigned and wraps for x < 2 or z < 2; the
\* model keeps cells of the part of the grid from (2, 2) on, where it does
\* not wrap, in the order of the list.
RayGridScene ==
    [ i \in Objs |->
        LET x == (GridSize \div 2) + (i \div (GridSize - GridSize \div 2))
            z == (GridSize \div 2) + (i % (GridSize - GridSize \div 2))
        IN << (x - GridSize \div 2) * GridSpacing,
              5,
              (z - GridSize \div 2) * GridSpacing >> ]

\* getRayFromScreenPoint: origin camera.position, direction through the
\* screen point. The camera belongs to the base class and moves freely, so
\* the ray is an input of the handlers; these are the rays the model casts.
RayQueryRays ==
    { [ origin |-> << -100, 50, -150 >>, dir |-> << 1, 0, 0 >> ],
      [ origin |-> << 200, 50, -150 >>,  dir |-> << -1, 0, 0 >> ],
      [ origin |-> << 2, 50, -150 >>,    dir |-> << 1, 0, 0 >> ],
      [ origin |-> << 5, 50, 0 >>,       dir |-> << 0, 0, -1 >> ],
      [ origin |-> << 0, 0, 0 >>,        dir |-> << 0, 1, 0 >> ] }
RayGridRays ==
    { [ origin |-> << 0, 5, -100 >>, dir |-> << 0, 0, 1 >> ],
      [ origin |-> << 0, 5, 100 >>,  dir |-> << 0, 0, -1 >> ],
      [ origin |-> << 0, 5, 2 >>,    dir |-> << 0, 0, 1 >> ],
      [ origin |-> << 0, 100, 0 >>,  dir |-> << 0, 1, 0 >> ] }
\* the screen points of the ray examples' pointer events: steps of one pixel
\* and of more than one pixel in x and in y
RayMousePoints == { << 0, 0 >>, << 1, 0 >>, << 3, 0 >>, << 0, 2 >> }

Rays == IF program = "rayquery" THEN RayQueryRays
        ELSE IF program = "raygrid" THEN RayGridRays
        ELSE { }

\* the loop "for (uint32_t i = 0; i < objects.size(); i++)" of pickObject,
\* from object i on, with the closest hit and the selection so far
RECURSIVE SphereLoop(_, _, _, _, _)
SphereLoop(ray, pos, i, closestHit, sel) ==
    IF i >= NumObjects THEN sel
    ELSE LET L == Sub(pos[i], ray.origin)
             tca == Dot(L, ray.dir)
             d2 == Dot(L, L) - tca * tca
             radius2 == Radius * Radius
             t0 == [ a |-> tca, s |-> -1, k |-> radius2 - d2 ]
             t1 == [ a |-> tca, s |-> 1, k |-> radius2 - d2 ]
             t == IF Negative(t0) THEN t1 ELSE t0
         IN IF tca < 0 THEN SphereLoop(ray, pos, i + 1, closestHit, sel)
            ELSE IF d2 > radius2
                 THEN SphereLoop(ray, pos, i + 1, closestHit, sel)
            ELSE IF Positive(t) /\ Less(t, closestHit)
                 THEN SphereLoop(ray, pos, i + 1, t, i)
            ELSE SphereLoop(ray, pos, i + 1, closestHit, sel)

\* Manipulator::rayDistanceToAxis
rayDistanceToAxis(rayOrigin, rayDir, axisStart, axisEnd) ==
    LET axisDir == Normalize(Sub(axisEnd, axisStart))
        crossProduct == Cross(rayDir, axisDir)
        crossLength == Length(crossProduct)
        axisToRay == Sub(rayOrigin, axisStart)
        distance == Abs(Dot(axisToRay, crossProduct)) \div crossLength
        t == Dot(axisDir, Cross(axisToRay, rayDir)) \div crossLength
    IN IF crossLength = 0 THEN FLT_MAX
       ELSE IF t < 0 \/ t > Length(Sub(axisEnd, axisStart)) THEN FLT_MAX
       ELSE distance

\* variant of checkAxisIntersection: the axis flags are not reset before an
\* axis is chosen
checkAxisIntersectionKeeping(m, ray) ==
    LET reset == m
        p == m.position
        distX == rayDistanceToAxis(ray.origin, ray.dir, p,
                                   << p[1] + AxisLength, p[2], p[3] >>)
        distY == rayDistanceToAxis(ray.origin, ray.dir, p,
                                   << p[1], p[2] + AxisLength, p[3] >>)
        distZ == rayDistanceToAxis(ray.origin, ray.dir, p,
                                   << p[1], p[2], p[3] + AxisLength >>)
    IN IF ~m.active THEN [ m |-> m, hit |-> FALSE ]
       ELSE IF distX < AxisThreshold /\ distX < distY /\ distX < distZ
            THEN [ m |-> [ reset EXCEPT !.xAxisSelected = TRUE ], hit |-> TRUE ]
       ELSE IF distY < AxisThreshold /\ distY < distX /\ distY < distZ
            THEN [ m |-> [ reset EXCEPT !.yAxisSelected = TRUE ], hit |-> TRUE ]
       ELSE IF distZ < AxisThreshold /\ distZ < distX /\ distZ < distY
            THEN [ m |-> [ reset EXCEPT !.zAxisSelected = TRUE ], hit |-> TRUE ]
       ELSE [ m |-> reset, hit |-> FALSE ]

\* Manipulator::checkAxisIntersection: the manipulator it leaves and the
\* value it returns
checkAxisIntersection(m, ray) ==
    LET reset == [ m EXCEPT !.xAxisSelected = FALSE, !.yAxisSelected = FALSE,
                            !.zAxisSelected = FALSE ]
        p == m.position
        distX == rayDistanceToAxis(ray.origin, ray.dir, p,
                                   << p[1] + AxisLength, p[2], p[3] >>)
        distY == rayDistanceToAxis(ray.origin, ray.dir, p,
                                   << p[1], p[2] + AxisLength, p[3] >>)
        distZ == rayDistanceToAxis(ray.origin, ray.dir, p,
                                   << p[1], p[2], p[3] + AxisLength >>)
    IN IF ~m.active THEN [ m |-> m, hit |-> FALSE ]
       ELSE IF distX < AxisThreshold /\ distX < distY /\ distX < distZ
            THEN [ m |-> [ reset EXCEPT !.xAxisSelected = TRUE ], hit |-> TRUE ]
       ELSE IF distY < AxisThreshold /\ distY < distX /\ distY < distZ
            THEN [ m |-> [ reset EXCEPT !.yAxisSelected = TRUE ], hit |-> TRUE ]
       ELSE IF distZ < AxisThreshold /\ distZ < distX /\ distZ < distY
            THEN [ m |-> [ reset EXCEPT !.zAxisSelected = TRUE ], hit |-> TRUE ]
       ELSE [ m |-> reset, hit |-> FALSE ]

ClearAxes(m) == [ m EXCEPT !.xAxisSelected = FALSE, !.yAxisSelected = FALSE,
                           !.zAxisSelected = FALSE ]
AxisSelected(m) == m.xAxisSelected \/ m.yAxisSelected \/ m.zAxisSelected

\* Manipulator::computeMovementAmount: glm::dot(rayDir, axis) * 0.1f
computeMovementAmount(rayDir, axis) == Dot(rayDir, axis) * MoveScale

\* variant of handleMouseMove: the object follows the ray's direction in all
\* three coordinates
handleMouseMoveFree(m, rayDir, objectPosition) ==
    IF ~m.active THEN [ position |-> objectPosition, handled |-> FALSE ]
    ELSE IF AxisSelected(m)
         THEN [ position |->
                  << objectPosition[1]
                       + computeMovementAmount(rayDir, << 1, 0, 0 >>),
                     objectPosition[2]
                       + computeMovementAmount(rayDir, << 0, 1, 0 >>),
                     objectPosition[3]
                       + computeMovementAmount(rayDir, << 0, 0, 1 >>) >>,
                handled |-> TRUE ]
    ELSE [ position |-> objectPosition, handled |-> FALSE ]

\* Manipulator::handleMouseMove: the object position it leaves and the value
\* it returns
handleMouseMove(m, rayDir, objectPosition) ==
    IF ~m.active THEN [ position |-> objectPosition, handled |-> FALSE ]
    ELSE IF m.xAxisSelected
         THEN [ position |-> << objectPosition[1]
                                  + computeMovementAmount(rayDir, << 1, 0, 0 >>),
                                objectPosition[2], objectPosition[3] >>,
                handled |-> TRUE ]
    ELSE IF m.yAxisSelected
         THEN [ position |-> << objectPosition[1],
                                objectPosition[2]
                                  + computeMovementAmount(rayDir, << 0, 1, 0 >>),
                                objectPosition[3] >>,
                handled |-> TRUE ]
    ELSE IF m.zAxisSelected
         THEN [ position |-> << objectPosition[1], objectPosition[2],
                                objectPosition[3]
                                  + computeMovementAmount(rayDir, << 0, 0, 1 >>) >>,
                handled |-> TRUE ]
    ELSE [ position |-> objectPosition, handled |-> FALSE ]


\* what a handler call that casts no ray records
NoRay == [ cast |-> FALSE, byManipulator |-> FALSE,
           ray |-> [ origin |-> << 0, 0, 0 >>, dir |-> << 0, 0, 0 >> ] ]

\* variant of RayQueryPickObject: the flag of the object selected before is
\* not reset
RayQueryPickObjectKeeping(ray) ==
    LET chk == checkAxisIntersection(manipulator, ray)
        hadSelection == selectedObjectID # UINT32_MAX
                          /\ selectedObjectID < NumObjects
        cleared == selected
        m2 == IF hadSelection
              THEN [ ClearAxes(chk.m) EXCEPT !.active = FALSE ]
              ELSE chk.m
        hit == SphereLoop(ray, position, 0, ClosestHitInit, UINT32_MAX)
    IN IF manipulator.active /\ chk.hit
       THEN /\ manipulator' = chk.m
            /\ lastRay' = [ cast |-> TRUE, byManipulator |-> TRUE, ray |-> ray ]
            /\ UNCHANGED << selected, selectedObjectID >>
       ELSE /\ selectedObjectID' = hit
            /\ selected' = IF hit # UINT32_MAX
                           THEN [ cleared EXCEPT ![hit] = TRUE ]
                           ELSE cleared
            /\ manipulator' = IF hit # UINT32_MAX
                              THEN [ m2 EXCEPT !.active = TRUE,
                                               !.position = position[hit] ]
                              ELSE [ m2 EXCEPT !.active = FALSE ]
            /\ lastRay' = [ cast |-> TRUE, byManipulator |-> FALSE, ray |-> ray ]

\* VulkanExample::pickObject of rayquery.cpp, given the ray of the screen point
RayQueryPickObject(ray) ==
    LET chk == checkAxisIntersection(manipulator, ray)
        hadSelection == selectedObjectID # UINT32_MAX
                          /\ selectedObjectID < NumObjects
        cleared == IF hadSelection
                   THEN [ selected EXCEPT ![selectedObjectID] = FALSE ]
                   ELSE selected
        m2 == IF hadSelection
              THEN [ ClearAxes(chk.m) EXCEPT !.active = FALSE ]
              ELSE chk.m
        hit == SphereLoop(ray, position, 0, ClosestHitInit, UINT32_MAX)
    IN IF manipulator.active /\ chk.hit
       THEN /\ manipulator' = chk.m
            /\ lastRay' = [ cast |-> TRUE, byManipulator |-> TRUE, ray |-> ray ]
            /\ UNCHANGED << selected, selectedObjectID >>
       ELSE /\ selectedObjectID' = hit
            /\ selected' = IF hit # UINT32_MAX
                           THEN [ cleared EXCEPT ![hit] = TRUE ]
                           ELSE cleared
            /\ manipulator' = IF hit # UINT32_MAX
                              THEN [ m2 EXCEPT !.active = TRUE,
                                               !.position = position[hit] ]
                              ELSE [ m2 EXCEPT !.active = FALSE ]
            /\ lastRay' = [ cast |-> TRUE, byManipulator |-> FALSE, ray |-> ray ]

\* VulkanExample::handleManipulatorDrag, given the ray of the screen point
handleManipulatorDrag(ray) ==
    IF ~manipulator.active \/ selectedObjectID = UINT32_MAX
    THEN UNCHANGED << position, manipulator >>
    ELSE LET moved == handleMouseMove(manipulator, ray.dir,
                                      position[selectedObjectID])
         IN IF moved.handled
            THEN /\ position' = [ position EXCEPT
                                    ![selectedObjectID] = moved.position ]
                 /\ manipulator' = [ manipulator EXCEPT
                                       !.position = moved.position ]
            ELSE UNCHANGED << position, manipulator >>

\* the objects are, taken together, within MaxDrift of where setupScene put
\* them
RECURSIVE Drift(_, _)
Drift(pos, i) ==
    IF i >= NumObjects THEN 0
    ELSE Length(Sub(pos[i], RayQueryScene[i])) + Drift(pos, i + 1)
WithinDrift(pos) == Drift(pos, 0) <= MaxDrift

\* the kind of a pointer event, from the button now and at the call before
EventKind(leftButtonDown) ==
    IF leftButtonDown
    THEN (IF lastEvent.left THEN "move" ELSE "down")
    ELSE (IF lastEvent.left THEN "up" ELSE "idle")

\* what a ray handler leaves alone of the id-buffer examples and the guide
RayFrame ==
    UNCHANGED << envVars, scene, selectedObjectIndex, dragging,
                 wasMouseDown, dragStart, dragEnd, imageRendered, imageLayout,
                 gpuLog, lastPick, farMoved, guideVars, codec, queue >>

\* VulkanExample::mouseMoved of rayquery.cpp with
\* leftButtonDown = mouseState.buttons.left and the ray of the point (x, y)
RayQueryMouseMoved(x, y, leftButtonDown, ray) ==
    /\ program = "rayquery"
    /\ ~aborted
    /\ lastEvent' = [ kind |-> EventKind(leftButtonDown),
                      left |-> leftButtonDown, at |-> << 0, 0 >> ]
    /\ RayFrame
    /\ IF leftButtonDown /\ ~wasPressed
       THEN /\ wasPressed' = TRUE
            /\ isDragging' = FALSE
            /\ lastXY' = << x, y >>
            /\ RayQueryPickObject(ray)
            /\ gesturePicks' = 1
            /\ UNCHANGED position
       ELSE IF leftButtonDown /\ wasPressed
       THEN /\ lastRay' = NoRay
            /\ UNCHANGED << wasPressed, selected, selectedObjectID,
                            gesturePicks >>
            /\ IF manipulator.active /\ AxisSelected(manipulator)
               THEN /\ isDragging' = TRUE
                    /\ IF Abs(x - lastXY[1]) > 1 \/ Abs(y - lastXY[2]) > 1
                       THEN /\ handleManipulatorDrag(ray)
                            /\ WithinDrift(position')
                            /\ lastXY' = << x, y >>
                       ELSE UNCHANGED << position, manipulator, lastXY >>
               ELSE UNCHANGED << isDragging, position, manipulator, lastXY >>
       ELSE IF ~leftButtonDown /\ wasPressed
       THEN /\ wasPressed' = FALSE
            /\ isDragging' = FALSE
            /\ manipulator' = IF manipulator.active
                              THEN ClearAxes(manipulator)
                              ELSE manipulator
            /\ lastRay' = NoRay
            /\ UNCHANGED << selected, selectedObjectID, position, lastXY,
                            gesturePicks >>
       ELSE /\ lastRay' = NoRay
            /\ UNCHANGED << selected, gesturePicks, rayVars >>

\* VulkanExample::keyPressed of rayquery.cpp: 'P' picks through the centre
\* of the screen; 'T', 'R', 'S' set manipulator.mode, which nothing reads
RayQueryKeyPressed(key, ray) ==
    /\ program = "rayquery"
    /\ ~aborted
    /\ lastEvent' = [ kind |-> "key", left |-> lastEvent.left,
                      at |-> << 0, 0 >> ]
    /\ RayFrame
    /\ IF key = "P"
       THEN /\ RayQueryPickObject(ray)
            /\ UNCHANGED << position, wasPressed, isDragging, lastXY,
                            gesturePicks >>
       ELSE /\ lastRay' = NoRay
            /\ UNCHANGED << selected, gesturePicks, rayVars >>

\* VulkanExample::pickObject of the grid example
RayGridPickObject(ray) ==
    LET hadSelection == selectedObjectID # UINT32_MAX
                          /\ selectedObjectID < NumObjects
        cleared == IF hadSelection
                   THEN [ selected EXCEPT ![selectedObjectID] = FALSE ]
                   ELSE selected
        hit == SphereLoop(ray, position, 0, ClosestHitInit, UINT32_MAX)
    IN /\ selectedObjectID' = hit
       /\ selected' = IF hit # UINT32_MAX
                      THEN [ cleared EXCEPT ![hit] = TRUE ]
                      ELSE cleared
       /\ lastRay' = [ cast |-> TRUE, byManipulator |-> FALSE, ray |-> ray ]

\* VulkanExample::mouseMoved of the grid example:
\* if (mouseState.buttons.left) pickObject(x, y)
RayGridMouseMoved(x, y, leftButtonDown, ray) ==
    /\ program = "raygrid"
    /\ ~aborted
    /\ lastEvent' = [ kind |-> EventKind(leftButtonDown),
                      left |-> leftButtonDown, at |-> << 0, 0 >> ]
    /\ RayFrame
    /\ UNCHANGED << position, manipulator, wasPressed, isDragging, lastXY >>
    /\ IF leftButtonDown
       THEN /\ RayGridPickObject(ray)
            /\ gesturePicks' = IF lastEvent.left
                               THEN Min(gesturePicks + 1, 2)
                               ELSE 1
       ELSE /\ lastRay' = NoRay
            /\ UNCHANGED << selected, selectedObjectID, gesturePicks >>

-----------------------------------------------------------------------------
(* The identifiers of the ray examples and the top-level acceleration
   structure built from them. *)

\* setupScene: object.id = 0, 1, 2 in the ray query example, object.id = id++
\* from 0 in the grid example; the id of objects[i] is i
PickableObjectId(i) == i

\* the sphere model loadAssets left: with its vertex and index buffers
\* filled, or with no vertices and no indices (buffers VK_NULL_HANDLE,
\* counts 0); only the ray query example is run with both
SphereModels(p) == IF p = "rayquery" THEN { "loaded", "empty" } ELSE { "loaded" }

\* createBottomLevelAccelerationStructure, called by prepare(): a void
\* function with no test of the buffers or counts, so no error reaches the
\* caller. With an empty model it calls getBufferDeviceAddress on
\* VK_NULL_HANDLE and records a build of 0 triangles with
\* maxVertex = 0 - 1: undefined behaviour, after which the process has ended
\* or goes on with an objectBLAS of undefined contents.
createBottomLevelAccelerationStructure(geometry) ==
    IF geometry = "loaded"
    THEN { [ geometry |-> geometry, objectBLAS |-> "built",
             error |-> FALSE, ended |-> FALSE ] }
    ELSE { [ geometry |-> geometry, objectBLAS |-> "undefined",
             error |-> FALSE, ended |-> e ] : e \in BOOLEAN }

\* mainSceneInstance.instanceCustomIndex = UINT32_MAX, kept in the 24 bits of
\* the field
MainSceneCustomIndex == 16777215

\* variant of createTopLevelAccelerationStructure: the object instances get
\* the custom index of the main scene
createTopLevelAccelerationStructureUnnumbered ==
    [ k \in 1 .. NumObjects + 1 |->
        [ instanceCustomIndex |-> MainSceneCustomIndex, object |-> k - 2 ] ]

\* createTopLevelAccelerationStructure: the instances pushed, in order; object
\* is the index of the object whose position is the instance's transform, -1
\* for the main scene
createTopLevelAccelerationStructure ==
    << [ instanceCustomIndex |-> MainSceneCustomIndex, object |-> -1 ] >>
      \o [ k \in 1 .. NumObjects |->
             [ instanceCustomIndex |-> PickableObjectId(k - 1) % 16777216,
               object |-> k - 1 ] ]

\* the translations of the instances createTopLevelAccelerationStructure
\* pushes, in order: transformMatrix, the identity, for the main scene, then
\* objTransform with objects[i].position in its last column
instanceTransforms(pos) ==
    << << 0, 0, 0 >> >> \o [ k \in 1 .. NumObjects |-> pos[k - 1] ]

-----------------------------------------------------------------------------
(* The picking guide: ray_picking.comp. The shader sees the scene only
   through the acceleration structure: instanceT[i] is the distance, in
   units of 0.001, at which the ray meets instance i (0: it misses it), and
   the order in which the traversal meets the instances is not specified. *)

GuideDistances == { 0, 5000, 10000 }

\* instance.instanceCustomIndex = i
instanceCustomIndex(i) == i

\* the candidate is inside the interval [tMin, tMax] of rayQueryInitializeEXT
InRange(t) == t >= RayTMin /\ t <= RayTMax

\* while(rayQueryProceedEXT(rayQuery)) {} with gl_RayFlagsOpaqueEXT |
\* gl_RayFlagsTerminateOnFirstHitEXT: the first intersection the traversal
\* meets is committed and ends the traversal. order[k] is the k-th instance
\* the traversal visits; the result is the committed instance, or -1.
RECURSIVE rayQueryProceed(_, _, _)
rayQueryProceed(order, k, ts) ==
    IF k > Len(order) THEN -1
    ELSE IF ts[order[k]] # 0 /\ InRange(ts[order[k]]) THEN order[k]
    ELSE rayQueryProceed(order, k + 1, ts)

\* the sequences that visit every instance once
TraversalOrders ==
    { o \in [ 1 .. NumObjects -> Objs ] :
        \A a, b \in 1 .. NumObjects : a # b => o[a] # o[b] }

\* main() of ray_picking.comp
RayPickingMain(order) ==
    /\ program = "guide"
    /\ ~aborted
    /\ LET committed == rayQueryProceed(order, 1, instanceT)
       IN pickResult' =
            IF committed # -1
            THEN [ hit |-> TRUE,
                   objectID |-> instanceCustomIndex(committed),
                   distance |-> instanceT[committed] ]
            ELSE [ hit |-> FALSE, objectID |-> 0, distance |-> 0 ]
    /\ lastEvent' = [ kind |-> "dispatch", left |-> FALSE, at |-> << 0, 0 >> ]
    /\ UNCHANGED << envVars, idVars, rayVars, instanceT, gpuLog,
                    lastPick, gesturePicks, farMoved, lastRay, codec, queue >>

-----------------------------------------------------------------------------
(* Specification *)

Programs == {"marquee", "pickbuffer", "rayquery", "raygrid", "guide"}

\* no id is on its way through the codec
CodecIdle ==
    [ stage |-> "idle", id |-> 0, color |-> << 0, 0, 0 >>,
      pixel |-> ClearColor, decoded |-> 0, ids |-> {} ]

\* the devices a program is run on; only the marquee example waits on a
\* fence of its own
Gpus(p) == IF p = "marquee" THEN { "responsive", "hanging" } ELSE { "responsive" }

ProgramInit ==
    /\ program \in Programs
    /\ gpu \in Gpus(program)
    /\ accelBuild \in UNION { createBottomLevelAccelerationStructure(g) :
                                  g \in SphereModels(program) }
    /\ aborted = accelBuild.ended
    /\ fenceWait = "returned"
    /\ scene \in IF program \in {"marquee", "pickbuffer"}
                 THEN Scenes ELSE {"ascending"}
    /\ selected = [ i \in Objs |-> FALSE ]
    /\ selectedObjectIndex = -1
    /\ dragging = FALSE
    /\ wasMouseDown = FALSE
    /\ dragStart = << 0, 0 >>
    /\ dragEnd = << 0, 0 >>
    /\ imageRendered = FALSE
    /\ imageLayout = "UNDEFINED"
    /\ gpuLog = << >>
    /\ lastEvent = [ kind |-> "none", left |-> FALSE, at |-> << 0, 0 >> ]
    /\ farMoved = FALSE
    /\ lastPick = NoPick
    /\ gesturePicks = 0
    /\ position = IF program = "raygrid" THEN RayGridScene ELSE RayQueryScene
    /\ selectedObjectID = UINT32_MAX
    /\ manipulator = [ active |-> FALSE, xAxisSelected |-> FALSE,
                       yAxisSelected |-> FALSE, zAxisSelected |-> FALSE,
                       position |-> << 0, 0, 0 >> ]
    /\ wasPressed = FALSE
    /\ isDragging = FALSE
    /\ lastXY = << 0, 0 >>
    /\ lastRay = NoRay
    /\ topLevelAS = instanceTransforms(position)
    /\ instanceT \in IF program = "guide"
                     THEN [ Objs -> GuideDistances ]
                     ELSE { [ i \in Objs |-> 0 ] }
    /\ pickResult = [ hit |-> FALSE, objectID |-> 0, distance |-> 0 ]

\* the examples run with their assets loaded on a device that completes
\* the work submitted to it
Init ==
    /\ ProgramInit
    /\ gpu = "responsive"
    /\ accelBuild.geometry = "loaded"
    /\ codec = CodecIdle
    /\ queue = QueueIdle

Next ==
    \/ \E x \in MouseXs, y \in MouseYs, left \in BOOLEAN :
          MarqueeMouseMoved(x, y, left)
    \/ \E x \in MouseXs, y \in MouseYs, left \in BOOLEAN :
          PickBufferMouseMoved(x, y, left)
    \/ \E currentBuffer \in {0, 1} : PickBufferRender(currentBuffer)
    \/ \E at \in RayMousePoints, left \in BOOLEAN, ray \in Rays :
          RayQueryMouseMoved(at[1], at[2], left, ray)
    \/ \E key \in {"P", "T"}, ray \in Rays : RayQueryKeyPressed(key, ray)
    \/ \E at \in RayMousePoints, left \in BOOLEAN, ray \in Rays :
          RayGridMouseMoved(at[1], at[2], left, ray)
    \/ \E order \in TraversalOrders : RayPickingMain(order)

Spec == Init /\ [][Next]_vars

\* the examples run with a fault in their environment where they have one to
\* meet: the marquee example on a device that may hang, the ray query example
\* with an empty sphere model
FaultInit ==
    /\ ProgramInit
    /\ program = "marquee" => gpu = "hanging"
    /\ program = "rayquery" => accelBuild.geometry = "empty"
    /\ codec = CodecIdle
    /\ queue = QueueIdle

FaultSpec == FaultInit /\ [][Next]_vars

\* the marquee example with its frames: the main loop renders a frame or
\* hands a pointer event to mouseMoved. The arrangement of the spheres has
\* no part in what the queue executes; one is kept.
QueueInit ==
    /\ Init
    /\ program = "marquee"
    /\ scene = "ascending"

QueueNext ==
    \/ \E x \in MouseXs, y \in MouseYs, left \in BOOLEAN :
          MarqueeMouseMoved(x, y, left)
    \/ MarqueeRender

QueueSpec == QueueInit /\ [][QueueNext]_vars

-----------------------------------------------------------------------------
(* The id codec taken alone: an id is encoded by getIdColor, written to a
   pixel of the id image by the fragment shader and decoded by the read-back,
   for ids around the byte boundaries of the 24 bits. *)

\* ids on each side of a byte boundary
CodecSpan == 12

\* 2^24
IdLimit == 16777216

CodecIds ==
    UNION { { b - d, b + d } : d \in 0 .. CodecSpan,
                               b \in { CodecSpan, 256, 65536, IdLimit } }

CodecInit ==
    /\ ProgramInit
    /\ program = "marquee"
    /\ gpu = "responsive"
    /\ scene = "ascending"
    /\ codec \in { [ CodecIdle EXCEPT !.stage = "id", !.id = id ] : id \in CodecIds }
    /\ queue = QueueIdle

\* push.idColor = object.getIdColor()
CodecEncode ==
    /\ codec.stage = "id"
    /\ codec' = [ codec EXCEPT !.stage = "color", !.color = getIdColor(codec.id) ]
    /\ UNCHANGED << programVars, queue >>

\* vkCmdDrawIndexed: the fragment shader's output stored in a covered pixel
CodecDraw ==
    /\ codec.stage = "color"
    /\ codec' = [ codec EXCEPT !.stage = "pixel", !.pixel = FragmentOutput(codec.color) ]
    /\ UNCHANGED << programVars, queue >>

\* the read-back of the pixel: the id decoded from it and the set of ids the
\* decode loop of GetObjectIDsFromRect keeps
CodecRead ==
    /\ codec.stage = "pixel"
    /\ codec' = [ codec EXCEPT !.stage = "decoded",
                               !.decoded = DecodePixel(codec.pixel),
                               !.ids = DecodeLoop(<< codec.pixel >>, 0, 1, {}) ]
    /\ UNCHANGED << programVars, queue >>

CodecNext == CodecEncode \/ CodecDraw \/ CodecRead

CodecSpec == CodecInit /\ [][CodecNext]_vars

-----------------------------------------------------------------------------
(* Properties *)

ThresholdSq == ClickThreshold * ClickThreshold
\* the last handler call was a pointer-up of the marquee example that
\* completed its pick
MarqueeUp == program = "marquee" /\ lastEvent.kind = "up"
\* squared distance between the recorded start point and the release point
ReleaseDistSq == DistSq(dragStart, lastEvent.at)
\* the last handler call performed a pick
PickPerformed == lastPick.kind # "none" \/ lastRay.cast

\* C1 as stated: at pointer-up of the marquee example a distance d < tau
\* between start and release point resolves through the point pick, and
\* d >= tau, d = tau included, through the region pick.
C1_AtThresholdRegion ==
    MarqueeUp =>
        /\ (ReleaseDistSq < ThresholdSq => lastPick.kind = "point")
        /\ (ReleaseDistSq >= ThresholdSq => lastPick.kind = "region")

\* C1 as the code has it: at pointer-up of the marquee example d <= tau,
\* d = tau included, resolves through the point pick at the release point,
\* and only d > tau resolves through the region pick over the rectangle of
\* start and release point.
C1_AboveThresholdRegion ==
    MarqueeUp =>
        /\ (ReleaseDistSq <= ThresholdSq =>
              lastPick.kind = "point" /\ lastPick.offset = lastEvent.at)
        /\ (ReleaseDistSq > ThresholdSq =>
              /\ lastPick.kind = "region"
              /\ lastPick.offset = << Min(dragStart[1], lastEvent.at[1]),
                                      Min(dragStart[2], lastEvent.at[2]) >>)

\* a release exactly tau from the start point went through the point pick
C1_Witness ==
    MarqueeUp /\ ReleaseDistSq = ThresholdSq /\ lastPick.kind = "point"

\* C2: after a completed point pick (marqueepickObject, pickObject of the
\* pick-buffer example) the selected objects are exactly the object whose id
\* equals the decoded pixel id, and none when the pixel decodes to no live id.
C2_PointPickReplacesSelection ==
    lastPick.kind = "point" =>
        \A i \in Objs :
            selected[i] <=> (ObjectId(i) = DecodePixel(lastPick.pixels[1]))

\* a point pick that decoded a nonzero id of no object, after an earlier
\* pick had selected an object, left nothing selected
C2_Witness ==
    /\ lastPick.kind = "point"
    /\ DecodePixel(lastPick.pixels[1]) # 0
    /\ \A i \in Objs : ObjectId(i) # DecodePixel(lastPick.pixels[1])
    /\ selectedObjectIndex >= 0
    /\ \A i \in Objs : ~selected[i]

\* C3: after performRubberBandPick an object is selected exactly when its id
\* is in the set the region readback returned, and a rectangle whose pixels
\* are all background leaves no object selected.
C3_RegionPickSelection ==
    lastPick.kind = "region" =>
        /\ \A i \in Objs : selected[i] <=> (ObjectId(i) \in lastPick.ids)
        /\ (\A k \in DOMAIN lastPick.pixels :
                DecodePixel(lastPick.pixels[k]) = 0)
             => \A i \in Objs : ~selected[i]

\* a region pick inside the image deselected the object an earlier point
\* pick had selected and selected another
C3_Witness ==
    /\ lastPick.kind = "region"
    /\ lastPick.valid
    /\ selectedObjectIndex = 1
    /\ ~selected[1]
    /\ selected[0]

\* the pixels of the rectangle with the given offset and extent
RectPoints(offset, extent) ==
    { << x, y >> : x \in offset[1] .. (offset[1] + extent[1] - 1),
                   y \in offset[2] .. (offset[2] + extent[2] - 1) }

\* C4: GetObjectIDsFromRect returns exactly the distinct nonzero values
\* r | (g << 8) | (b << 16) of the pixels it read, one pixel per point of the
\* rectangle; for a rectangle inside the image these are the pixels the id
\* render left at the rectangle's points; 0 is never in the result.
C4_RectIdsExact ==
    lastPick.kind = "region" =>
        /\ 0 \notin lastPick.ids
        /\ Len(lastPick.pixels) = lastPick.extent[1] * lastPick.extent[2]
        /\ lastPick.ids =
             { lastPick.pixels[k][1] + lastPick.pixels[k][2] * 256
                 + lastPick.pixels[k][3] * 65536 :
               k \in DOMAIN lastPick.pixels } \ {0}
        /\ lastPick.valid =>
             { lastPick.pixels[k] : k \in DOMAIN lastPick.pixels } =
             { buildPickCommandBuffer(scene, pt[1], pt[2]) :
               pt \in RectPoints(lastPick.offset, lastPick.extent) }

\* a rectangle inside the image with background and two objects returned
\* both ids
C4_Witness ==
    /\ lastPick.kind = "region"
    /\ lastPick.valid
    /\ lastPick.ids = { ObjectId(0), ObjectId(1) }
    /\ \E k \in DOMAIN lastPick.pixels : lastPick.pixels[k] = ClearColor

\* C5: the marquee gesture interpreter has two states, Idle and Dragging;
\* it leaves Idle only in a call with the left button down, which records
\* the start point; it leaves Dragging only in a call with the button up;
\* and no step but the one that leaves Idle changes the start point.
C5_TwoStateGesture ==
    [][ program = "marquee" =>
          /\ dragging' = wasMouseDown'
          /\ (~dragging /\ dragging') =>
                /\ lastEvent'.left
                /\ lastEvent'.kind = "down"
                /\ dragStart' = lastEvent'.at
          /\ (dragging /\ ~dragging') => ~lastEvent'.left
          /\ (dragStart' # dragStart) => (~dragging /\ dragging') ]_vars

\* a move while Dragging went at least tau away and the start point is the
\* one of the pointer-down
C5_Witness ==
    /\ program = "marquee"
    /\ dragging
    /\ lastEvent.kind = "move"
    /\ farMoved
    /\ dragStart # dragEnd

\* C6 as stated: in the marquee example and the two ray examples no pick is
\* performed when pointer-down is processed or on a move with the button
\* held; a pick is performed at pointer-up, once per gesture.
C6_PickOnlyAtPointerUp ==
    program \in {"marquee", "rayquery", "raygrid"} =>
        /\ lastEvent.kind \in {"down", "move"} => ~PickPerformed
        /\ lastEvent.kind = "up" => (PickPerformed /\ gesturePicks = 1)

\* C6 as the code has it: the marquee example performs no pick at
\* pointer-down or on a move and one pick at pointer-up; the ray-query
\* example picks once when pointer-down is processed and not on a move or
\* at pointer-up; the grid example picks in every call with the button held
\* and not at pointer-up.
C6_PickMoments ==
    /\ program = "marquee" =>
         /\ lastEvent.kind \in {"down", "move", "idle"} => ~PickPerformed
         /\ lastEvent.kind = "up" => (PickPerformed /\ gesturePicks = 1)
    /\ program = "rayquery" =>
         /\ lastEvent.kind = "down" => (lastRay.cast /\ gesturePicks = 1)
         /\ lastEvent.kind \in {"move", "up", "idle"} => ~PickPerformed
    /\ program = "raygrid" =>
         /\ lastEvent.kind \in {"down", "move"} => lastRay.cast
         /\ lastEvent.kind \in {"up", "idle"} => ~PickPerformed

\* a marquee gesture with moves far from the start point ended with its one
\* pick at pointer-up
C6_Witness ==
    MarqueeUp /\ farMoved /\ PickPerformed /\ gesturePicks = 1

\* C7: at pointer-up of the marquee example a release point less than tau
\* from the start point resolves through the point pick at the release
\* point, whatever moves the gesture made in between.
C7_ReleaseDecides ==
    (MarqueeUp /\ ReleaseDistSq < ThresholdSq) =>
        \A far \in BOOLEAN :
            farMoved = far =>
                lastPick.kind = "point" /\ lastPick.offset = lastEvent.at

\* a gesture that moved at least tau away and was released less than tau
\* from its start point went through the point pick
C7_Witness ==
    /\ MarqueeUp
    /\ farMoved
    /\ ReleaseDistSq < ThresholdSq
    /\ lastPick.kind = "point"

\* the operations a, b, c, d, e occur in the log in this order
InOrder(log, a, b, c, d, e) ==
    \E i, j, k, l, n \in DOMAIN log :
        /\ i < j /\ j < k /\ k < l /\ l < n
        /\ log[i] = a /\ log[j] = b /\ log[k] = c /\ log[l] = d /\ log[n] = e

\* C8: every id-buffer pick, point or region, submits the id render, waits
\* for its completion, then submits the copy out of the id image, waits for
\* it, and only then reads the staging memory.
C8_RenderWaitCopyRead ==
    lastPick.kind \in {"point", "region"} =>
        InOrder(gpuLog, "render_submit", "render_wait", "copy_submit",
                "copy_wait", "host_read")

\* the object's sphere is met by the ray at a point in front of the origin
IntersectedInFront(ray, c) ==
    LET L == Sub(c, ray.origin)
        tca == Dot(L, ray.dir)
        k == Radius * Radius - (Dot(L, L) - tca * tca)
    IN k >= 0 /\ Positive([ a |-> tca, s |-> 1, k |-> k ])
\* the distance along the ray of the nearest such point
FrontDistance(ray, c) ==
    LET L == Sub(c, ray.origin)
        tca == Dot(L, ray.dir)
        k == Radius * Radius - (Dot(L, L) - tca * tca)
        near == [ a |-> tca, s |-> -1, k |-> k ]
    IN IF Positive(near) THEN near ELSE [ a |-> tca, s |-> 1, k |-> k ]

\* C9: the ray pick of the ray examples selects an object whose distance
\* along the ray is smallest among the objects the ray meets in front of
\* its origin, whatever their order in the list.
C9_NearestInFrontSelected ==
    (program \in {"rayquery", "raygrid"}
       /\ lastRay.cast /\ ~lastRay.byManipulator) =>
        LET met == { i \in Objs : IntersectedInFront(lastRay.ray, position[i]) }
        IN met # { } =>
             /\ selectedObjectID \in met
             /\ \A j \in met :
                  ~Less(FrontDistance(lastRay.ray, position[j]),
                        FrontDistance(lastRay.ray, position[selectedObjectID]))

\* C10: ray_picking.comp reports the nearest intersection inside
\* [tMin, tMax], its instance custom index and its distance, for every
\* order in which the traversal meets the instances.
C10_ClosestHitReported ==
    (program = "guide" /\ lastEvent.kind = "dispatch") =>
        LET met == { i \in Objs : instanceT[i] # 0 /\ InRange(instanceT[i]) }
        IN /\ pickResult.hit <=> (met # { })
           /\ pickResult.hit =>
                \E i \in met :
                    /\ pickResult.objectID = instanceCustomIndex(i)
                    /\ pickResult.distance = instanceT[i]
                    /\ \A j \in met : instanceT[i] <= instanceT[j]

\* the custom index of the instance of object i in the acceleration structure
CustomIndexOf(i) ==
    LET tlas == createTopLevelAccelerationStructure
    IN tlas[CHOOSE k \in 1 .. Len(tlas) : tlas[k].object = i].instanceCustomIndex

\* C11: a ray pick whose ray meets no pickable object in front of its origin
\* ends with selectedObjectID = UINT32_MAX and no object selected; a ray that
\* meets one or more resolves to the id, which is the instance custom index,
\* of a nearest object met (of the only object met, when it is alone).
C11_RayPickIdentifier ==
    (program \in {"rayquery", "raygrid"}
       /\ lastRay.cast /\ ~lastRay.byManipulator) =>
        LET met == { i \in Objs : IntersectedInFront(lastRay.ray, position[i]) }
        IN /\ met = { } =>
                /\ selectedObjectID = UINT32_MAX
                /\ \A i \in Objs : ~selected[i]
           /\ met # { } =>
                \E i \in met :
                    /\ selectedObjectID = PickableObjectId(i)
                    /\ selectedObjectID = CustomIndexOf(i)
                    /\ selected[i]
                    /\ \A j \in met :
                         ~Less(FrontDistance(lastRay.ray, position[j]),
                               FrontDistance(lastRay.ray, position[i]))

\* C12: every id from 1 to 2^24 - 1 that getIdColor encodes and the fragment
\* shader writes is decoded from the pixel as the same id; id 0 is written as
\* the pixel (0, 0, 0), which is also the clear colour and decodes to no
\* object.
C12_CodecRoundTrip ==
    codec.stage = "decoded" =>
        /\ codec.id \in 1 .. IdLimit - 1 =>
              /\ codec.decoded = codec.id
              /\ codec.ids = { codec.id }
        /\ codec.id = 0 =>
              /\ << codec.pixel[1], codec.pixel[2], codec.pixel[3] >> = << 0, 0, 0 >>
              /\ codec.decoded = DecodePixel(ClearColor)
              /\ codec.decoded = 0
              /\ codec.ids = { }

C12_Witness ==
    /\ codec.stage = "decoded"
    /\ codec.id = IdLimit - 1
    /\ codec.pixel = << 255, 255, 255, 255 >>

\* the id given to objects[i] by the program that runs
IdOf(i) ==
    IF program \in {"marquee", "pickbuffer"} THEN ObjectId(i)
    ELSE PickableObjectId(i)

Covering(x, y) == { i \in Objs : Covers(scene, i, x, y) }

\* C14: in the image an id render has left when a pick reads it, a pixel
\* some object covers holds the colour that encodes the id of a covering
\* object no other covering object is nearer than, whatever the draw order,
\* and a pixel no object covers holds (0, 0, 0); a point pick reads back
\* that pixel.
C14_NearestIdPerPixel ==
    (program \in {"marquee", "pickbuffer"} /\ imageRendered
       /\ lastPick.kind # "none") =>
        /\ \A x \in 0 .. (ImgW - 1), y \in 0 .. (ImgH - 1) :
              LET px == buildPickCommandBuffer(scene, x, y)
              IN IF Covering(x, y) = { }
                 THEN << px[1], px[2], px[3] >> = << 0, 0, 0 >>
                 ELSE \E i \in Covering(x, y) :
                        /\ \A j \in Covering(x, y) :
                              FragDepth(scene, i) <= FragDepth(scene, j)
                        /\ px = FragmentOutput(getIdColor(ObjectId(i)))
                        /\ DecodePixel(px) = ObjectId(i)
        /\ (lastPick.kind = "point" /\ lastPick.valid) =>
              lastPick.pixels[1] =
                  buildPickCommandBuffer(scene, lastPick.offset[1], lastPick.offset[2])

\* a point pick has read a pixel that two objects cover and whose nearest
\* object is the one drawn last
C14_Witness ==
    /\ program = "marquee"
    /\ imageRendered
    /\ scene = "descending"
    /\ lastPick.kind = "point"
    /\ lastPick.valid
    /\ Cardinality(Covering(lastPick.offset[1], lastPick.offset[2])) >= 2
    /\ DecodePixel(lastPick.pixels[1]) = ObjectId(NumObjects - 1)

\* C15: a pointer-up of the marquee example whose rectangle of start and
\* release point has width or height 0 in whole pixels resolves through the
\* point pick, and no region pick runs GetObjectIDsFromRect on an extent with
\* a zero side.
C15_ZeroExtentIsPointPick ==
    MarqueeUp =>
        LET rect == RubberBandRect(dragStart, lastEvent.at)
        IN /\ (rect.w <= 0 \/ rect.h <= 0) => lastPick.kind = "point"
           /\ lastPick.kind = "region" =>
                 lastPick.extent[1] > 0 /\ lastPick.extent[2] > 0

\* a nonzero id that no object of the list has
StaleId(id) == id # 0 /\ \A i \in Objs : ObjectId(i) # id

\* C16: a point pick whose pixel decodes to a nonzero id of no object ends
\* with no object selected and selectedObjectIndex = -1, and a region pick
\* selects exactly the objects whose ids were decoded, whatever other ids
\* the rectangle held; neither ends the process.
C16_StaleIdIsNoMatch ==
    /\ (lastPick.kind = "point" /\ StaleId(DecodePixel(lastPick.pixels[1]))) =>
          /\ \A i \in Objs : ~selected[i]
          /\ selectedObjectIndex = -1
    /\ (program = "marquee" /\ lastPick.kind = "region"
           /\ \E id \in lastPick.ids : StaleId(id)) =>
          \A i \in Objs : selected[i] <=> ObjectId(i) \in lastPick.ids

\* C17: the completion wait of a pick of the marquee example always comes
\* back to the handler, and when the GPU's signal did not arrive the process
\* goes on: no handler stays inside the wait and no wait ends the process.
C17_PickWaitReturns ==
    program = "marquee" =>
        /\ fenceWait # "blocked"
        /\ fenceWait = "device_lost" => ~aborted

\* C18: when the sphere model given to the acceleration structure build of
\* the ray query example is empty, the build has reported an error and every
\* ray pick made afterwards ends with no hit.
C18_BuildErrorDisablesPicking ==
    (program = "rayquery" /\ accelBuild.geometry = "empty"
       /\ lastRay.cast /\ ~lastRay.byManipulator) =>
        /\ accelBuild.error
        /\ selectedObjectID = UINT32_MAX
        /\ \A i \in Objs : ~selected[i]

\* C19: a pick of the marquee example that starts with the id image in a
\* layout a pick or render left it in ends with the image in that same
\* layout, whether it is a point pick or a region pick.
C19_LayoutRestored ==
    [][ (program = "marquee"
           /\ imageLayout # "UNDEFINED"
           /\ lastEvent.kind # "up" /\ lastEvent'.kind = "up"
           /\ lastPick'.kind \in {"point", "region"})
          => imageLayout' = imageLayout ]_vars

\* the instances of object i in the acceleration structure
InstancesOf(i) ==
    LET tlas == createTopLevelAccelerationStructure
    IN { k \in 1 .. Len(tlas) : tlas[k].object = i }

\* C20: the top-level structure of the ray examples holds exactly one
\* instance of every pickable object, its custom index is the object's id,
\* and no other instance carries that index; in the guide the index the
\* shader reports on a hit is the index of exactly one instance.
C20_OneInstancePerObject ==
    LET tlas == createTopLevelAccelerationStructure
    IN /\ program \in {"rayquery", "raygrid"} =>
             \A i \in Objs :
                 /\ Cardinality(InstancesOf(i)) = 1
                 /\ \A k \in 1 .. Len(tlas) :
                       (tlas[k].instanceCustomIndex = PickableObjectId(i))
                           <=> k \in InstancesOf(i)
       /\ (program = "guide" /\ pickResult.hit) =>
             Cardinality({ i \in Objs :
                             instanceCustomIndex(i) = pickResult.objectID }) = 1

\* the structure holds the main scene and the objects, and a ray pick has
\* selected the last object, whose instance carries its id
C20_Witness ==
    /\ program = "rayquery"
    /\ Len(createTopLevelAccelerationStructure) = NumObjects + 1
    /\ lastRay.cast
    /\ selectedObjectID = PickableObjectId(NumObjects - 1)
    /\ CustomIndexOf(NumObjects - 1) = selectedObjectID

\* the translation of the instance of object i in the structure as it was
\* last built
TranslationOf(i) == topLevelAS[CHOOSE k \in InstancesOf(i) : TRUE]

\* C21: in the ray query example, after any sequence of picks and drags, the
\* translation of each object's instance in the top-level structure equals
\* the object's current position.
C21_InstancesFollowObjects ==
    program = "rayquery" =>
        \A i \in Objs : TranslationOf(i) = position[i]

C23_IndexMatchesFlags ==
    (program = "marquee" /\ ~aborted /\ lastPick.valid) =>
        /\ selectedObjectIndex >= 0 => selected[selectedObjectIndex]
        /\ (\A i \in Objs : ~selected[i]) => selectedObjectIndex = -1

\* C24: for every pointer position delivered to mouseMoved of the marquee
\* example, the region copied out of the pick image lies inside the image,
\* for the 1x1 point read-back and for the rubber-band rectangle:
\* 0 <= offset.x, offset.x + extent.width <= width, 0 <= offset.y and
\* offset.y + extent.height <= height.
C24_CopyInsideImage ==
    (program = "marquee" /\ lastPick.kind \in {"point", "region"}) =>
        /\ 0 <= lastPick.offset[1]
        /\ lastPick.offset[1] + lastPick.extent[1] <= ImgW
        /\ 0 <= lastPick.offset[2]
        /\ lastPick.offset[2] + lastPick.extent[2] <= ImgH

\* every operation from the k-th on names the layout the image is in: the
\* one the operation before it left, layout for the first. An old layout of
\* UNDEFINED is allowed whatever the image holds.
RECURSIVE LayoutsFollow(_, _, _)
LayoutsFollow(ops, k, layout) ==
    IF k > Len(ops) THEN TRUE
    ELSE /\ ops[k].names \in { layout, "UNDEFINED" }
         /\ LayoutsFollow(ops, k + 1, ops[k].leaves)

\* C25: through any sequence of point and region picks of the marquee
\* example, every layout transition and every copy recorded against the id
\* image names as its old or current layout the layout the preceding
\* operation left the image in.
C25_LayoutsNamedAsLeft ==
    [][ (program = "marquee"
           /\ lastEvent.kind # "up" /\ lastEvent'.kind = "up"
           /\ lastPick'.kind \in {"point", "region"})
          => LayoutsFollow(IF lastPick'.kind = "point"
                           THEN PointPickImageOps ELSE RegionPickImageOps,
                           1, imageLayout) ]_vars

\* the custom index of the main scene's instance, the one of no object
MainSceneIndexStored ==
    LET tlas == createTopLevelAccelerationStructure
    IN tlas[CHOOSE k \in 1 .. Len(tlas) : tlas[k].object = -1].instanceCustomIndex

\* C26: the custom index the top-level structure holds for the main scene,
\* UINT32_MAX kept in 24 bits, is not a valid pickable identifier: it lies
\* outside [1, 2^24 - 1], and it is the id of no pickable object.
C26_MainSceneIndexInvalid ==
    program = "rayquery" =>
        /\ MainSceneIndexStored = UINT32_MAX % IdLimit
        /\ MainSceneIndexStored \notin 1 .. (IdLimit - 1)
        /\ \A i \in Objs : PickableObjectId(i) # MainSceneIndexStored

\* C27: in the ray query example, after any sequence of pickObject calls, key
\* presses and manipulator drags, at most one object is selected, and an
\* object's selected flag is true if and only if its index is
\* selectedObjectID (UINT32_MAX: no object is selected).
C27_SelectionMatchesId ==
    program = "rayquery" =>
        /\ Cardinality({ i \in Objs : selected[i] }) <= 1
        /\ \A i \in Objs : selected[i] <=> (i = selectedObjectID)
        /\ selectedObjectID = UINT32_MAX \/ selectedObjectID \in Objs

\* objects[0] was selected and dragged, and a later pick has moved the
\* selection to the last object
C27_Witness ==
    /\ program = "rayquery"
    /\ position[0] # RayQueryScene[0]
    /\ selectedObjectID = NumObjects - 1
    /\ selected[NumObjects - 1]
    /\ ~selected[0]

\* the axes of the manipulator that are selected
AxesSelected(m) ==
    { a \in {"x", "y", "z"} :
        \/ a = "x" /\ m.xAxisSelected
        \/ a = "y" /\ m.yAxisSelected
        \/ a = "z" /\ m.zAxisSelected }

\* C28: in the ray query example, in every state between event handlers,
\* manipulator.active holds if and only if an object is selected
\* (selectedObjectID # UINT32_MAX), at most one of the three axis flags is
\* true, and an axis is selected only while the manipulator is active.
C28_ManipulatorFollowsSelection ==
    program = "rayquery" =>
        /\ manipulator.active <=> (selectedObjectID # UINT32_MAX)
        /\ Cardinality(AxesSelected(manipulator)) <= 1
        /\ AxesSelected(manipulator) # { } => manipulator.active

\* an object is selected, its manipulator is active and a click has taken
\* one of its axes
C28_Witness ==
    /\ program = "rayquery"
    /\ selectedObjectID \in Objs
    /\ manipulator.active
    /\ Cardinality(AxesSelected(manipulator)) = 1
    /\ lastRay.byManipulator

\* the coordinates in which two positions differ
CoordinatesChanged(p, q) == { c \in 1 .. 3 : p[c] # q[c] }

\* the coordinate of the axis the manipulator has selected
SelectedAxisCoordinates(m) ==
    { c \in 1 .. 3 :
        \/ c = 1 /\ m.xAxisSelected
        \/ c = 2 /\ m.yAxisSelected
        \/ c = 3 /\ m.zAxisSelected }

\* C29: a pointer move with the button held, the only caller of
\* handleManipulatorDrag, changes at most one coordinate, the one of the
\* selected axis, of the position of the selected object only; the other
\* objects' positions, selectedObjectID and every selected flag are left as
\* they were, and with nothing selected or the manipulator inactive nothing
\* changes.
C29_DragMovesOneCoordinate ==
    [][ (program = "rayquery" /\ lastEvent'.kind = "move") =>
          /\ selectedObjectID' = selectedObjectID
          /\ selected' = selected
          /\ \A i \in Objs :
                IF i = selectedObjectID /\ manipulator.active
                THEN /\ Cardinality(CoordinatesChanged(position[i],
                                                       position'[i])) <= 1
                     /\ CoordinatesChanged(position[i], position'[i])
                           \subseteq SelectedAxisCoordinates(manipulator)
                ELSE position'[i] = position[i] ]_vars

\* a drag has moved the selected object along the axis a click took
C29_Witness ==
    /\ program = "rayquery"
    /\ lastEvent.kind = "move"
    /\ isDragging
    /\ selectedObjectID \in Objs
    /\ Cardinality(CoordinatesChanged(position[selectedObjectID],
                                      RayQueryScene[selectedObjectID])) = 1
    /\ manipulator.position = position[selectedObjectID]

\* the distance checkAxisIntersection computes from the ray to the axis of
\* coordinate c of the manipulator
AxisDistance(m, ray, c) ==
    rayDistanceToAxis(ray.origin, ray.dir, m.position,
                      [ m.position EXCEPT ![c] = @ + AxisLength ])

\* C30: when the manipulator is active and the pick ray is within the axis
\* threshold of one of its axes, pickObject only selects an axis:
\* selectedObjectID, every object's selected flag and position and
\* manipulator.active are left as they were.
C30_AxisClickKeepsSelection ==
    [][ (program = "rayquery"
           /\ lastRay'.cast
           /\ manipulator.active
           /\ \E c \in 1 .. 3 :
                 AxisDistance(manipulator, lastRay'.ray, c) < AxisThreshold)
          => /\ Cardinality(AxesSelected(manipulator')) = 1
             /\ selectedObjectID' = selectedObjectID
             /\ selected' = selected
             /\ position' = position
             /\ manipulator'.active = manipulator.active ]_vars

=============================================================================
